---- MODULE Spec2Model ----
(***************************************************************************)
(* The filter block of an sstable (sstable/filter.go): the per-block       *)
(* filter writer, the blob it produces and the per-block filter reader.    *)
(*                                                                         *)
(* Lengths and offsets are Go int / uint32 / uint64 values that reach and  *)
(* pass 2^32-1.  They are held as pairs <<hi, lo>> of value                *)
(* hi * 65536 + lo, with lo in 0..65535, so that the 32-bit boundary is    *)
(* modelled exactly.                                                       *)
(***************************************************************************)
EXTENDS Integers, Sequences, FiniteSets, TLC

VARIABLES
    policy,   \* the db.FilterPolicy injected at construction
    f,        \* the blockFilterWriter
    phase,    \* "building", then "done" (finish returned a blob) or "failed"
    call,     \* the last call made on the writer and what it returned
    blob,     \* the bytes handed to the reader
    r,        \* the blockFilterReader built from blob
    query,    \* the last mayContain call and its result
    cur,      \* history: the keys added since the last finishBlock, each as
              \* <<key, segments emitted when added, offset of the
              \* finishBlock before it (0 if none)>>
    added,    \* history: <<key, segments emitted when added, offset of the
              \* finishBlock after it, offset of the finishBlock before it>>
    prev,     \* history: the offset of the last finishBlock call
    mono,     \* history: the finishBlock offsets were non-decreasing so far
    tw,       \* the tableFilterWriter
    loop,     \* a finishBlock call in progress, one loop iteration at a time
    qs        \* the mayContain calls in progress, one per concurrent caller

vars == <<policy, f, phase, call, blob, r, query, cur, added, prev, mono,
          tw, loop, qs>>

(***************************************************************************)
(* Bounds of the model.                                                    *)
(***************************************************************************)
\* the writer receives at most MaxCalls addKey/finishBlock calls before finish
MaxCalls == 4
\* block offsets range over the first MaxBlock + 1 multiples of the filter window
MaxBlock == 2
Keys == {"a", "b"}

(***************************************************************************)
(* Wide unsigned numbers.                                                  *)
(***************************************************************************)
Half == 256 * 256

W(n) == <<n \div Half, n % Half>>

WAdd(a, b) == <<a[1] + b[1] + ((a[2] + b[2]) \div Half), (a[2] + b[2]) % Half>>

WLt(a, b) == a[1] < b[1] \/ (a[1] = b[1] /\ a[2] < b[2])

WLe(a, b) == ~WLt(b, a)

\* a - b for a >= b
WSub(a, b) ==
    IF a[2] >= b[2] THEN <<a[1] - b[1], a[2] - b[2]>>
    ELSE <<a[1] - b[1] - 1, a[2] + Half - b[2]>>

\* the Go conversion uint32(o) of a non-negative int: o mod 2^32
ToUint32(o) == <<o[1] % Half, o[2]>>

\* 1<<32 - 1
MaxUint32 == <<Half - 1, Half - 1>>

\* a wide number known to be below 2^31, as an integer
WInt(a) == a[1] * Half + a[2]

(***************************************************************************)
(* Byte slices.  Every slice of the model is a sequence of filters written *)
(* by the policy followed by raw bytes: [filters, raw].                    *)
(***************************************************************************)
NoBytes == [filters |-> <<>>, raw |-> <<>>]

\* the bytes a policy writer of kind fk appends for the keys ks: n opaque bytes
FilterRun(fk, ks, n) == [n |-> n, keys |-> ks, fk |-> fk]

RECURSIVE LenUpTo(_, _)
\* the length in bytes of the first k filters
LenUpTo(filters, k) ==
    IF k = 0 THEN W(0) ELSE WAdd(LenUpTo(filters, k - 1), filters[k].n)

\* len(data)
BLen(data) == WAdd(LenUpTo(data.filters, Len(data.filters)), W(Len(data.raw)))

\* data[p] for p < len(data); the bytes of a filter are opaque and read as 0
ByteAt(data, p) ==
    LET fl == LenUpTo(data.filters, Len(data.filters)) IN
    IF WLt(p, fl) THEN 0 ELSE data.raw[WInt(WSub(p, fl)) + 1]

\* append(data, bs...)
AppendBytes(data, bs) == [data EXCEPT !.raw = @ \o bs]

(***************************************************************************)
(* The filter policy (db.FilterPolicy, db.FilterWriter).                   *)
(***************************************************************************)
\* policy.NewWriter(kind)
NewWriter(kind) == [kind |-> kind, keys |-> {}]

\* writer.AddKey(key)
WriterAddKey(w, key) == [w EXCEPT !.keys = @ \cup {key}]

\* writer.Finish(data): data with the filter of the accumulated keys appended;
\* n is the length of that filter
WriterFinish(w, data, n) ==
    [data EXCEPT !.filters = Append(@, FilterRun(w.kind, w.keys, n))]

\* the writer after Finish: its accumulator is reset
WriterReset(w) == [w EXCEPT !.keys = {}]

(***************************************************************************)
(* blockFilterWriter.                                                      *)
(***************************************************************************)
filterBaseLog == 11

\* x >> s for a uint64 x below 2^31: a shift count of 31 or more leaves 0
Shr(x, s) == IF s >= 31 THEN 0 ELSE x \div (2 ^ s)

BlockOffsets == {b * (2 ^ filterBaseLog) : b \in 0..MaxBlock}

\* newBlockFilterWriter asking the policy for a writer of table filters
newBlockFilterWriter_tableKind ==
    [count |-> 0, writer |-> NewWriter("TableFilter"), data |-> NoBytes,
     offsets |-> <<>>, lens |-> <<>>, emits |-> 0]

newBlockFilterWriter ==
    [count |-> 0, writer |-> NewWriter("BlockFilter"), data |-> NoBytes,
     offsets |-> <<>>, lens |-> <<>>, emits |-> 0]

hasKeys(w) == w.count # 0

\* addKey counting the key without handing it to the policy writer
addKey_countOnly(w, key) == [w EXCEPT !.count = @ + 1]

addKey(w, key) ==
    [w EXCEPT !.count = @ + 1, !.writer = WriterAddKey(@, key)]

\* appendOffset without the length check
appendOffset_unchecked(w) ==
    [f |-> [w EXCEPT !.offsets = Append(@, ToUint32(BLen(w.data))),
                     !.lens = Append(@, BLen(w.data))],
     err |-> FALSE]

\* lens is history: len(f.data), untruncated, at each offset recorded;
\* emits is history: the number of calls of emit that returned nil
appendOffset(w) ==
    LET o == BLen(w.data) IN
    IF WLt(MaxUint32, o) THEN [f |-> w, err |-> TRUE]
    ELSE [f |-> [w EXCEPT !.offsets = Append(@, ToUint32(o)),
                          !.lens = Append(@, o)],
          err |-> FALSE]

\* emit recording the offset after the filter is written
emit_offsetAfterFinish(w, n) ==
    IF ~hasKeys(w)
    THEN LET a == appendOffset(w) IN
         IF a.err THEN a ELSE [f |-> [a.f EXCEPT !.emits = @ + 1], err |-> FALSE]
    ELSE LET a == appendOffset([w EXCEPT !.data = WriterFinish(w.writer, @, n),
                                         !.writer = WriterReset(@),
                                         !.count = 0]) IN
         IF a.err THEN a ELSE [f |-> [a.f EXCEPT !.emits = @ + 1], err |-> FALSE]

\* emit writing a filter when no key is pending
emit_finishesEmpty(w, n) ==
    LET a == appendOffset(w) IN
    IF a.err THEN a
    ELSE [f |-> [a.f EXCEPT !.data = WriterFinish(a.f.writer, @, n),
                            !.writer = WriterReset(@),
                            !.count = 0,
                            !.emits = @ + 1],
          err |-> FALSE]

\* emit returning before it records an offset when no key is pending
emit_skipsEmpty(w, n) ==
    IF ~hasKeys(w) THEN [f |-> w, err |-> FALSE]
    ELSE LET a == appendOffset(w) IN
         IF a.err THEN a
         ELSE [f |-> [a.f EXCEPT !.data = WriterFinish(a.f.writer, @, n),
                                 !.writer = WriterReset(@),
                                 !.count = 0,
                                 !.emits = @ + 1],
               err |-> FALSE]

emit(w, n) ==
    LET a == appendOffset(w) IN
    IF a.err THEN a
    ELSE IF ~hasKeys(a.f) THEN [f |-> [a.f EXCEPT !.emits = @ + 1], err |-> FALSE]
    ELSE [f |-> [a.f EXCEPT !.data = WriterFinish(a.f.writer, @, n),
                            !.writer = WriterReset(@),
                            !.count = 0,
                            !.emits = @ + 1],
          err |-> FALSE]

\* the loop of finishBlock as an if: at most one segment a call
finishBlockLoop_once(w, i, n) ==
    IF i > Len(w.offsets) THEN emit(w, n) ELSE [f |-> w, err |-> FALSE]

RECURSIVE finishBlockLoop_inclusive(_, _, _)
\* the loop of finishBlock with >= for >
finishBlockLoop_inclusive(w, i, n) ==
    IF i >= Len(w.offsets)
    THEN LET e == emit(w, n) IN
         IF e.err THEN e ELSE finishBlockLoop_inclusive(e.f, i, n)
    ELSE [f |-> w, err |-> FALSE]

RECURSIVE finishBlockLoop(_, _, _)
finishBlockLoop(w, i, n) ==
    IF i > Len(w.offsets)
    THEN LET e == emit(w, n) IN
         IF e.err THEN e ELSE finishBlockLoop(e.f, i, n)
    ELSE [f |-> w, err |-> FALSE]

finishBlock(w, blockOffset, n) ==
    finishBlockLoop(w, Shr(blockOffset, filterBaseLog), n)

\* PutUint32 writing the most significant byte first
PutUint32_bigEndian(x) ==
    <<x[1] \div 256, x[1] % 256, x[2] \div 256, x[2] % 256>>

\* binary.LittleEndian.PutUint32(b[:], x), as the four bytes appended
PutUint32(x) ==
    <<x[2] % 256, x[2] \div 256, x[1] % 256, x[1] \div 256>>

RECURSIVE EncodeOffsets(_, _)
\* the bytes of offsets[1..k], in order
EncodeOffsets(offsets, k) ==
    IF k = 0 THEN <<>> ELSE EncodeOffsets(offsets, k - 1) \o PutUint32(offsets[k])

\* finish without the sentinel offset
finish_noSentinel(w, n) ==
    LET e == IF hasKeys(w) THEN emit(w, n) ELSE [f |-> w, err |-> FALSE] IN
    IF e.err THEN e
    ELSE [f |-> [e.f EXCEPT !.data =
                     AppendBytes(AppendBytes(@, EncodeOffsets(e.f.offsets, Len(e.f.offsets))),
                                 <<filterBaseLog>>)],
          err |-> FALSE]

finish(w, n) ==
    LET e == IF hasKeys(w) THEN emit(w, n) ELSE [f |-> w, err |-> FALSE] IN
    IF e.err THEN e
    ELSE LET a == appendOffset(e.f) IN
         IF a.err THEN a
         ELSE [f |-> [a.f EXCEPT !.data =
                          AppendBytes(AppendBytes(@, EncodeOffsets(a.f.offsets, Len(a.f.offsets))),
                                      <<filterBaseLog>>)],
               err |-> FALSE]

(***************************************************************************)
(* blockFilterReader.                                                      *)
(***************************************************************************)
\* binary.LittleEndian.Uint32(data[p:]), p a wide position with p + 4 <= len(data)
Uint32At(data, p) ==
    <<ByteAt(data, WAdd(p, W(2))) + 256 * ByteAt(data, WAdd(p, W(3))),
      ByteAt(data, p) + 256 * ByteAt(data, WAdd(p, W(1)))>>

\* a / 4, a wide
WDiv4(a) == <<a[1] \div 4, ((a[1] % 4) * Half + a[2]) \div 4>>

\* policy.MayContain(kind, data[i:j], key) for 0 <= i < j <= len(data).  The
\* policy answers exactly on a filter it wrote with that kind; on any other
\* bytes its answer is p.junk
PolicyMayContain(p, kind, data, i, j, key) ==
    LET hit == {k \in 1..Len(data.filters) :
                    /\ data.filters[k].fk = kind
                    /\ LenUpTo(data.filters, k - 1) = i
                    /\ LenUpTo(data.filters, k) = j} IN
    IF hit = {} THEN p.junk ELSE \E k \in hit : key \in data.filters[k].keys

NilReader == [nil |-> TRUE, policy |-> [junk |-> FALSE, lens |-> {}],
              lastOffset |-> W(0), shift |-> 0]

\* newBlockFilterReader without the check of len(offsets)&3
newBlockFilterReader_noAlignCheck(data, p) ==
    LET n == BLen(data) IN
    IF WLt(n, W(5)) THEN NilReader
    ELSE LET lastOffset == Uint32At(data, WSub(n, W(5))) IN
         IF WLt(WSub(n, W(5)), lastOffset) THEN NilReader
         ELSE [nil |-> FALSE, policy |-> p, lastOffset |-> lastOffset,
               shift |-> ByteAt(data, WSub(n, W(1)))]

newBlockFilterReader(data, p) ==
    LET n == BLen(data) IN
    IF WLt(n, W(5)) THEN NilReader
    ELSE LET lastOffset == Uint32At(data, WSub(n, W(5))) IN
         IF WLt(WSub(n, W(5)), lastOffset) THEN NilReader
         ELSE LET offsetsLen == WSub(WSub(n, W(1)), lastOffset)
                  shift == ByteAt(data, WSub(n, W(1))) IN
              IF offsetsLen[2] % 4 # 0 THEN NilReader
              ELSE [nil |-> FALSE, policy |-> p, lastOffset |-> lastOffset,
                    shift |-> shift]

\* mayContain without the check of j against len(data)
mayContain_trustsBounds(rd, data, blockOffset, key) ==
    LET n == BLen(data) IN
    IF rd.nil \/ WLt(n, W(1)) \/ WLt(WSub(n, W(1)), rd.lastOffset) THEN "panic"
    ELSE LET offsetsLen == WSub(WSub(n, W(1)), rd.lastOffset)
             index == Shr(blockOffset, rd.shift)
             cnt == WDiv4(offsetsLen) IN
         IF cnt # W(0) /\ WLe(WSub(cnt, W(1)), W(index)) THEN "true"
         ELSE IF WLt(offsetsLen, W(4 * index + 8)) THEN "panic"
         ELSE LET i == Uint32At(data, WAdd(rd.lastOffset, W(4 * index)))
                  j == Uint32At(data, WAdd(rd.lastOffset, W(4 * index + 4))) IN
              IF WLe(j, i) THEN "true"
              ELSE IF PolicyMayContain(rd.policy, "BlockFilter", data, i, j, key)
                   THEN "true" ELSE "false"

\* mayContain comparing index with len(offsets)/4, not len(offsets)/4-1
mayContain_offByOne(rd, data, blockOffset, key) ==
    LET n == BLen(data) IN
    IF rd.nil \/ WLt(n, W(1)) \/ WLt(WSub(n, W(1)), rd.lastOffset) THEN "panic"
    ELSE LET offsetsLen == WSub(WSub(n, W(1)), rd.lastOffset)
             index == Shr(blockOffset, rd.shift)
             cnt == WDiv4(offsetsLen) IN
         IF WLe(cnt, W(index)) THEN "true"
         ELSE IF WLt(offsetsLen, W(4 * index + 8)) THEN "panic"
         ELSE LET i == Uint32At(data, WAdd(rd.lastOffset, W(4 * index)))
                  j == Uint32At(data, WAdd(rd.lastOffset, W(4 * index + 4))) IN
              IF WLe(j, i) \/ WLt(rd.lastOffset, j) THEN "true"
              ELSE IF PolicyMayContain(rd.policy, "BlockFilter", data, i, j, key)
                   THEN "true" ELSE "false"

\* the result is "true" or "false", or "panic" where the Go runtime would stop
\* the program: a nil receiver, slice bounds out of range
mayContain(rd, data, blockOffset, key) ==
    LET n == BLen(data) IN
    IF rd.nil \/ WLt(n, W(1)) \/ WLt(WSub(n, W(1)), rd.lastOffset) THEN "panic"
    ELSE LET offsetsLen == WSub(WSub(n, W(1)), rd.lastOffset)
             index == Shr(blockOffset, rd.shift)
             cnt == WDiv4(offsetsLen) IN
         \* uint64(len(offsets)/4-1) is 2^64-1 when len(offsets) < 4
         IF cnt # W(0) /\ WLe(WSub(cnt, W(1)), W(index)) THEN "true"
         ELSE IF WLt(offsetsLen, W(4 * index + 8)) THEN "panic"
         ELSE LET i == Uint32At(data, WAdd(rd.lastOffset, W(4 * index)))
                  j == Uint32At(data, WAdd(rd.lastOffset, W(4 * index + 4))) IN
              IF WLe(j, i) \/ WLt(rd.lastOffset, j) THEN "true"
              ELSE IF PolicyMayContain(rd.policy, "BlockFilter", data, i, j, key)
                   THEN "true" ELSE "false"

(***************************************************************************)
(* tableFilterWriter and tableFilterReader.                                *)
(***************************************************************************)
\* adds and all are history: the number of addKey calls and the keys they
\* passed
newTableFilterWriter ==
    [count |-> 0, writer |-> NewWriter("TableFilter"), adds |-> 0, all |-> {}]

tableAddKey(w, key) ==
    [w EXCEPT !.count = @ + 1, !.writer = WriterAddKey(@, key),
              !.adds = @ + 1, !.all = @ \cup {key}]

\* finishBlock flushing the accumulator as the per-block writer does
tableFinishBlock_flushes(w, blockOffset) ==
    [f |-> [w EXCEPT !.count = 0, !.writer = WriterReset(@)], err |-> FALSE]

tableFinishBlock(w, blockOffset) == [f |-> w, err |-> FALSE]

\* nil is the nil slice: finish returned no filter
tableFinish(w, n) ==
    IF w.count = 0 THEN [f |-> w, data |-> NoBytes, nil |-> TRUE, err |-> FALSE]
    ELSE [f |-> [w EXCEPT !.writer = WriterReset(@)],
          data |-> WriterFinish(w.writer, NoBytes, n), nil |-> FALSE,
          err |-> FALSE]

\* tableFilterReader.mayContain(data, key): the policy on the whole of data
tableMayContain(p, data, key) ==
    IF PolicyMayContain(p, "TableFilter", data, W(0), BLen(data), key)
    THEN "true" ELSE "false"

(***************************************************************************)
(* The table writer and reader driving the filter: one action per call.    *)
(***************************************************************************)
\* the lengths of the filters the policy writes: 1, 2^31, 2^32-1 and 2^32 bytes
FilterLens == {W(1), <<Half \div 2, 0>>, MaxUint32, <<Half, 0>>}

\* the policy of a table build: on bytes it did not write it answers false
Policies == [junk : {FALSE}, lens : {FilterLens}]

\* a call on the writer: what was called, with what, whether it returned an
\* error, how many calls were made so far, and the writer on entry: the
\* segments emitted, the keys pending, the offset of the finishBlock before
NoCall == [op |-> "none", arg |-> 0, err |-> FALSE, n |-> 0, emitted |-> 0,
           pending |-> 0, prev |-> -1]

NoQuery == [blockOffset |-> 0, key |-> "", result |-> "none"]

\* no finishBlock call in progress
NoLoop == [pc |-> "idle", blockOffset |-> 0, n0 |-> 0, iters |-> 0, err |-> FALSE]

\* the callers that query one reader at the same time
Callers == {1, 2}

\* no mayContain call in progress
NoQueries ==
    [c \in Callers |-> [pc |-> "idle", blockOffset |-> 0, key |-> "",
                        lastOffset |-> W(0), index |-> 0, result |-> "none"]]

Init ==
    /\ policy \in Policies
    /\ f = newBlockFilterWriter
    /\ phase = "building"
    /\ call = NoCall
    /\ blob = NoBytes
    /\ r = NilReader
    /\ query = NoQuery
    /\ cur = {}
    /\ added = {}
    /\ prev = -1
    /\ mono = TRUE
    /\ tw = newTableFilterWriter
    /\ loop = NoLoop
    /\ qs = NoQueries

Called(op, arg, err) ==
    [op |-> op, arg |-> arg, err |-> err, n |-> call.n + 1,
     emitted |-> Len(f.offsets), pending |-> f.count, prev |-> prev]

AddKey(key) ==
    /\ phase = "building"
    /\ f' = addKey(f, key)
    /\ call' = Called("addKey", 0, FALSE)
    /\ cur' = cur \cup {<<key, Len(f.offsets), IF prev < 0 THEN 0 ELSE prev>>}
    /\ UNCHANGED <<policy, phase, blob, r, query, added, prev, mono, tw, loop, qs>>

FinishBlock(blockOffset, n) ==
    /\ phase = "building"
    /\ LET res == finishBlock(f, blockOffset, n) IN
        /\ f' = res.f
        /\ call' = Called("finishBlock", blockOffset, res.err)
    /\ added' = added \cup {<<c[1], c[2], blockOffset, c[3]>> : c \in cur}
    /\ cur' = {}
    /\ prev' = blockOffset
    /\ mono' = (mono /\ prev <= blockOffset)
    /\ UNCHANGED <<policy, phase, blob, r, query, tw, loop, qs>>

Finish(n) ==
    /\ phase = "building"
    /\ LET res == finish(f, n) IN
        /\ f' = res.f
        /\ call' = Called("finish", 0, res.err)
        /\ phase' = IF res.err THEN "failed" ELSE "done"
        /\ blob' = IF res.err THEN NoBytes ELSE res.f.data
    /\ UNCHANGED <<policy, r, query, cur, added, prev, mono, tw, loop, qs>>

Open ==
    /\ phase = "done"
    /\ r' = newBlockFilterReader(blob, policy)
    /\ phase' = "open"
    /\ UNCHANGED <<policy, f, call, blob, query, cur, added, prev, mono, tw, loop, qs>>

QueryOffsets == BlockOffsets \cup {(MaxBlock + 1) * (2 ^ filterBaseLog)}

MayContain(blockOffset, key) ==
    /\ phase = "open"
    /\ ~r.nil
    /\ query' = [blockOffset |-> blockOffset, key |-> key,
                 result |-> mayContain(r, blob, blockOffset, key)]
    /\ UNCHANGED <<policy, f, phase, call, blob, r, cur, added, prev, mono, tw, loop, qs>>

Next ==
    \/ \E key \in Keys : call.n < MaxCalls /\ AddKey(key)
    \/ \E blockOffset \in BlockOffsets : \E n \in policy.lens :
          call.n < MaxCalls /\ FinishBlock(blockOffset, n)
    \/ \E n \in policy.lens : Finish(n)
    \/ Open
    \/ \E blockOffset \in QueryOffsets : \E key \in Keys : MayContain(blockOffset, key)

Spec == Init /\ [][Next]_vars

(***************************************************************************)
(* The reader alone, on blobs that no writer need have produced: filters,  *)
(* raw segment bytes, 32-bit words, padding and a final byte.              *)
(***************************************************************************)
\* the blobs hold at most MaxWords 32-bit words
MaxWords == 3

WordVals == {W(0), W(1), W(2), W(4), MaxUint32}

ShiftVals == {0, filterBaseLog, 255}

RECURSIVE WordSeqs(_)
\* the byte sequences of exactly k words
WordSeqs(k) ==
    IF k = 0 THEN {<<>>}
    ELSE {ws \o PutUint32(v) : ws \in WordSeqs(k - 1), v \in WordVals}

Blobs ==
    {[filters |-> fs, raw |-> seg \o ws \o pad \o <<sh>>] :
        fs \in {<<>>, <<FilterRun("BlockFilter", {"a"}, W(1))>>},
        seg \in {<<>>, <<7>>},
        ws \in UNION {WordSeqs(k) : k \in 0..MaxWords},
        pad \in {<<>>, <<0>>},
        sh \in ShiftVals}

InitReader ==
    /\ policy \in [junk : BOOLEAN, lens : {{W(1)}}]
    /\ f = newBlockFilterWriter
    /\ phase = "done"
    /\ call = NoCall
    /\ blob \in Blobs
    /\ r = NilReader
    /\ query = NoQuery
    /\ cur = {}
    /\ added = {}
    /\ prev = -1
    /\ mono = TRUE
    /\ tw = newTableFilterWriter
    /\ loop = NoLoop
    /\ qs = NoQueries

NextReader ==
    \/ Open
    \/ \E blockOffset \in QueryOffsets : \E key \in Keys : MayContain(blockOffset, key)

SpecReader == InitReader /\ [][NextReader]_vars

(***************************************************************************)
(* Properties.                                                             *)
(***************************************************************************)
\* the index of the 2048-byte window holding a block offset
WindowOf(blockOffset) == blockOffset \div 2048

\* the larger of two numbers
Max(a, b) == IF a >= b THEN a ELSE b

\* finish returned a blob
Finished == phase \in {"done", "open"} /\ call.op = "finish" /\ ~call.err

\* the length of the segment data of a slice a writer built
SegLen(data) == LenUpTo(data.filters, Len(data.filters))

\* entry k (from 0) of the offset table of the blob of a writer, decoded as a
\* little-endian 32-bit number
TableEntry(k) ==
    <<blob.raw[4 * k + 3] + 256 * blob.raw[4 * k + 4],
      blob.raw[4 * k + 1] + 256 * blob.raw[4 * k + 2]>>

\* byte i (from 0, least significant first) of a 32-bit number
LEByte(x, i) ==
    CASE i = 0 -> x[2] % 256
      [] i = 1 -> x[2] \div 256
      [] i = 2 -> x[1] % 256
      [] i = 3 -> x[1] \div 256

\* a reader was built from the blob of a finished writer
Opened == phase = "open" /\ ~r.nil

\* C1 as stated: with non-decreasing block offsets, where the keys of a block
\* are added and then finishBlock is called with the offset of that block,
\* the reader of the finished blob answers true for every key at the offset
\* of its block.
C1_NoFalseNegativesPerBlock ==
    (Opened /\ mono) =>
        \A t \in added : mayContain(r, blob, t[3], t[1]) = "true"

\* C1 amended: under the same usage the reader answers true for every key of
\* a block whose offset lies in the window numbered by the count of segments
\* emitted when the key was added (the window no earlier finishBlock passed).
C1_NoFalseNegativesInWindow ==
    (Opened /\ mono) =>
        \A t \in added :
            WindowOf(t[3]) = t[2] => mayContain(r, blob, t[3], t[1]) = "true"

\* C1 witness: the policy was asked about the filter of a key's own window,
\* past the first window, and the reader answered true
C1_Witness ==
    /\ Opened /\ mono
    /\ query.result = "true"
    /\ \E t \in added :
          /\ t[1] = query.key /\ t[3] = query.blockOffset
          /\ t[3] > 0 /\ WindowOf(t[3]) = t[2]
          /\ t[2] + 1 < Len(f.offsets)
          /\ f.offsets[t[2] + 1] # f.offsets[t[2] + 2]


\* C2: after any calls in any order and a finish that succeeds, the offset
\* table of the blob has one entry more than segments were emitted, is
\* non-decreasing, has no entry above the segment-data length, and ends with
\* the segment-data length.
C2_OffsetTableWellFormed ==
    Finished =>
        /\ Len(blob.raw) = 4 * (f.emits + 1) + 1
        /\ \A k \in 0..(f.emits - 1) : WLe(TableEntry(k), TableEntry(k + 1))
        /\ \A k \in 0..f.emits : WLe(TableEntry(k), SegLen(blob))
        /\ TableEntry(f.emits) = SegLen(blob)

\* C2 witness: offsets given out of order, an empty and a non-empty segment
C2_Witness ==
    /\ Finished /\ ~mono /\ f.emits >= 2
    /\ \E k \in 0..(f.emits - 1) : TableEntry(k) = TableEntry(k + 1)
    /\ \E k \in 0..(f.emits - 1) : TableEntry(k) # TableEntry(k + 1)

\* C3 as stated: after finishBlock(blockOffset) returns nil the segment of
\* the window of blockOffset is emitted too: at least
\* (blockOffset >> 11) + 1 segments are emitted.
C3_CoveringSegmentEmitted ==
    (call.op = "finishBlock" /\ ~call.err) =>
        Len(f.offsets) >= WindowOf(call.arg) + 1

\* C3 amended: after finishBlock(blockOffset) returns nil every window
\* strictly before the window of blockOffset is emitted: at least
\* blockOffset >> 11 segments are emitted.
C3_EarlierWindowsEmitted ==
    (call.op = "finishBlock" /\ ~call.err) =>
        Len(f.offsets) >= WindowOf(call.arg)

\* C3 witness: a call that emitted segments and stopped short of the window
\* of its offset
C3_Witness ==
    /\ call.op = "finishBlock" /\ ~call.err
    /\ call.emitted < Len(f.offsets)
    /\ Len(f.offsets) = WindowOf(call.arg)

\* C4: a finishBlock(B) that returns nil with n segments emitted before it
\* emits exactly max(0, (B >> 11) - n) segments, leaving max(n, B >> 11).
C4_EmitUntilCaughtUp ==
    (call.op = "finishBlock" /\ ~call.err) =>
        /\ Len(f.offsets) = Max(call.emitted, WindowOf(call.arg))
        /\ Len(f.offsets) - call.emitted = Max(0, WindowOf(call.arg) - call.emitted)

\* C4 witness: one call emitted several segments
C4_Witness ==
    /\ call.op = "finishBlock" /\ ~call.err
    /\ Len(f.offsets) - call.emitted >= 2

\* the end of segment s (from 0) while the writer is building
SegHigh(s) == IF s + 2 <= Len(f.offsets) THEN f.offsets[s + 2] ELSE BLen(f.data)

\* C5: finishBlock(0) then finishBlock(4096) leaves at least 2 segments
\* emitted, keys added in between or not; of the segments one finishBlock
\* call emits only the first can be non-empty, and only if keys were pending
\* on entry; no key is pending after a call that emitted a segment.
C5_WindowEmission ==
    /\ f.emits > call.emitted => f.count = 0
    /\ call.op = "finishBlock" =>
        /\ (call.prev = 0 /\ call.arg = 4096 /\ ~call.err) => Len(f.offsets) >= 2
        /\ \A s \in (call.emitted + 1)..(Len(f.offsets) - 1) :
              f.offsets[s + 1] = SegHigh(s)
        /\ (Len(f.offsets) > call.emitted
                /\ f.offsets[call.emitted + 1] # SegHigh(call.emitted))
              => call.pending > 0

\* C5 witness: finishBlock(4096) after finishBlock(0) with keys in between
\* emitted a segment with keys and an empty one
C5_Witness ==
    /\ call.op = "finishBlock" /\ ~call.err
    /\ call.prev = 0 /\ call.arg = 4096 /\ call.pending > 0
    /\ Len(f.offsets) = call.emitted + 2
    /\ f.offsets[call.emitted + 1] # SegHigh(call.emitted)

\* C6: a finish that succeeds emits one last segment exactly when keys are
\* pending; with N segments emitted the blob is the segment data, then the
\* N + 1 recorded offsets as 4 little-endian bytes each, then the byte 11.
C6_BlobLayout ==
    Finished =>
        LET N == call.emitted + (IF call.pending > 0 THEN 1 ELSE 0) IN
        /\ f.emits = N
        /\ Len(f.lens) = N + 1
        /\ Len(blob.raw) = 4 * (N + 1) + 1
        /\ \A k \in 1..(N + 1) : \A i \in 0..3 :
              blob.raw[4 * (k - 1) + i + 1] = LEByte(f.lens[k], i)
        /\ blob.raw[4 * (N + 1) + 1] = 11
        /\ BLen(blob) = WAdd(SegLen(blob), W(4 * (N + 1) + 1))

\* C6 witness: a last segment emitted by finish, and an offset of 2^31
C6_Witness ==
    /\ Finished /\ call.pending > 0 /\ call.emitted >= 1
    /\ \E k \in 1..Len(f.lens) : f.lens[k] = <<32768, 0>>

\* the reader's view of the blob it was built from: the length of the offset
\* table, the number of real segments, the index and the bounds of a query
RdOffsetsLen == WSub(WSub(BLen(blob), W(1)), r.lastOffset)

RdSegments == WInt(WDiv4(RdOffsetsLen)) - 1

RdIndex(blockOffset) == IF r.shift >= 31 THEN 0 ELSE blockOffset \div (2 ^ r.shift)

RdLow(ix) == Uint32At(blob, WAdd(r.lastOffset, W(4 * ix)))

RdHigh(ix) == Uint32At(blob, WAdd(r.lastOffset, W(4 * ix + 4)))

\* C7: mayContain answers true when the index of the block offset is at or
\* past the number of real segments, and when the bounds at that index have
\* low >= high or high above the segment-data length; it answers false only
\* when the policy answered false on an index and bounds that are in range.
C7_ReaderFailOpen ==
    (Opened /\ query.result # "none") =>
        LET ix == RdIndex(query.blockOffset) IN
        /\ ix >= RdSegments => query.result = "true"
        /\ (ix < RdSegments
              /\ (WLe(RdHigh(ix), RdLow(ix)) \/ WLt(r.lastOffset, RdHigh(ix))))
             => query.result = "true"
        /\ query.result = "false" =>
              /\ ix < RdSegments
              /\ WLt(RdLow(ix), RdHigh(ix))
              /\ WLe(RdHigh(ix), r.lastOffset)
              /\ ~PolicyMayContain(policy, "BlockFilter", blob, RdLow(ix),
                                   RdHigh(ix), query.key)

\* C7 witness: a real segment whose upper bound lies past the segment data,
\* answered true
C7_Witness ==
    /\ Opened /\ query.result = "true"
    /\ RdIndex(query.blockOffset) < RdSegments
    /\ WLt(RdLow(RdIndex(query.blockOffset)), RdHigh(RdIndex(query.blockOffset)))
    /\ WLt(r.lastOffset, RdHigh(RdIndex(query.blockOffset)))

\* the little-endian 32-bit number in the 4 bytes before the last byte
Sentinel == Uint32At(blob, WSub(BLen(blob), W(5)))

\* C8: newBlockFilterReader returns nil exactly when the blob is shorter than
\* 5 bytes, or its sentinel exceeds len(blob) - 5, or the bytes from the
\* sentinel position to the last byte are not a multiple of 4; otherwise the
\* reader has the sentinel as lastOffset and the last byte as shift.
C8_ReaderConstruction ==
    phase = "open" =>
        /\ r.nil <=>
              \/ WLt(BLen(blob), W(5))
              \/ WLt(WSub(BLen(blob), W(5)), Sentinel)
              \/ WSub(WSub(BLen(blob), W(1)), Sentinel)[2] % 4 # 0
        /\ ~r.nil =>
              /\ r.lastOffset = Sentinel
              /\ r.shift = ByteAt(blob, WSub(BLen(blob), W(1)))

\* C8 witness: a blob of 5 bytes or more with a sentinel in range, refused
\* for its offset table alone
C8_Witness ==
    /\ phase = "open" /\ r.nil
    /\ WLe(W(5), BLen(blob))
    /\ WLe(Sentinel, WSub(BLen(blob), W(5)))

\* C9: on a blob that newBlockFilterReader accepted, mayContain on that blob
\* stops on no slice or index out of range, for any block offset and key.
C9_ReaderNeverPanics ==
    Opened =>
        /\ query.result # "panic"
        /\ \A b \in QueryOffsets : \A k \in Keys : mayContain(r, blob, b, k) # "panic"

\* C9 witness: a query on an accepted blob no writer produced: its first
\* offset is not 0
C9_Witness ==
    /\ Opened /\ query.result \in {"true", "false"}
    /\ RdIndex(query.blockOffset) < RdSegments
    /\ RdLow(0) # W(0)

\* C10: an offset is recorded only while the segment data is at most 2^32-1
\* bytes long, and as recorded it is that length; a build whose segment data
\* is longer than 2^32-1 bytes ends with finish returning the error.
C10_FilterTooLarge ==
    /\ \A k \in 1..Len(f.offsets) :
          WLe(f.lens[k], MaxUint32) /\ f.offsets[k] = f.lens[k]
    /\ (call.op = "finish" /\ WLt(MaxUint32, SegLen(f.data))) => call.err
    /\ Finished => \A k \in 0..f.emits : TableEntry(k) = f.lens[k + 1]

\* C10 witness: finish returned the error on segment data longer than 2^32-1
C10_Witness ==
    /\ phase = "failed" /\ call.op = "finish" /\ call.err
    /\ WLt(MaxUint32, SegLen(f.data))

\* C11: a per-block writer whose first call is finish returns the 5 bytes
\* 0, 0, 0, 0, 11 (the sentinel offset 0 and the shift); newBlockFilterReader
\* accepts that blob, and mayContain on it answers true for every block
\* offset and key.
C11_EmptyWriterBlob ==
    (call.op = "finish" /\ call.n = 1) =>
        /\ ~call.err
        /\ blob = [filters |-> <<>>, raw |-> <<0, 0, 0, 0, filterBaseLog>>]
        /\ ~newBlockFilterReader(blob, policy).nil
        /\ phase = "open" => ~r.nil
        /\ \A b \in QueryOffsets : \A k \in Keys :
              mayContain(newBlockFilterReader(blob, policy), blob, b, k) = "true"
        /\ query.result \in {"none", "true"}

\* C11 witness: the blob of a writer that received no call was opened and a
\* query past the first window was answered
C11_Witness ==
    /\ call.op = "finish" /\ call.n = 1
    /\ Opened /\ query.result = "true" /\ query.blockOffset > 0

(***************************************************************************)
(* The whole-table filter: a tableFilterWriter driven call by call, then   *)
(* the tableFilterReader on the filter it returned.                        *)
(***************************************************************************)
InitTable ==
    /\ policy \in Policies
    /\ f = newBlockFilterWriter
    /\ phase = "tbuilding"
    /\ call = NoCall
    /\ blob = NoBytes
    /\ r = NilReader
    /\ query = NoQuery
    /\ cur = {}
    /\ added = {}
    /\ prev = -1
    /\ mono = TRUE
    /\ tw = newTableFilterWriter
    /\ loop = NoLoop
    /\ qs = NoQueries

TableAddKey(key) ==
    /\ phase = "tbuilding"
    /\ tw' = tableAddKey(tw, key)
    /\ call' = Called("addKey", 0, FALSE)
    /\ UNCHANGED <<policy, f, phase, blob, r, query, cur, added, prev, mono,
                   loop, qs>>

TableFinishBlock(blockOffset) ==
    /\ phase = "tbuilding"
    /\ LET res == tableFinishBlock(tw, blockOffset) IN
        /\ tw' = res.f
        /\ call' = Called("finishBlock", blockOffset, res.err)
    /\ prev' = blockOffset
    /\ UNCHANGED <<policy, f, phase, blob, r, query, cur, added, mono, loop, qs>>

\* "tnil": finish returned nil, there is no filter; "tdone": it returned one
TableFinish(n) ==
    /\ phase = "tbuilding"
    /\ LET res == tableFinish(tw, n) IN
        /\ tw' = res.f
        /\ call' = Called("finish", 0, res.err)
        /\ phase' = IF res.nil THEN "tnil" ELSE "tdone"
        /\ blob' = res.data
    /\ UNCHANGED <<policy, f, r, query, cur, added, prev, mono, loop, qs>>

TableMayContain(key) ==
    /\ phase = "tdone"
    /\ query' = [blockOffset |-> 0, key |-> key,
                 result |-> tableMayContain(policy, blob, key)]
    /\ UNCHANGED <<policy, f, phase, call, blob, r, cur, added, prev, mono,
                   tw, loop, qs>>

NextTable ==
    \/ \E key \in Keys : call.n < MaxCalls /\ TableAddKey(key)
    \/ \E blockOffset \in BlockOffsets : call.n < MaxCalls /\ TableFinishBlock(blockOffset)
    \/ \E n \in policy.lens : TableFinish(n)
    \/ \E key \in Keys : TableMayContain(key)

SpecTable == InitTable /\ [][NextTable]_vars

\* C12: finishBlock of the whole-table writer leaves the accumulator and the
\* count as the addKey calls made them, whatever the block offset; finish
\* returns nil and no error when addKey was never called, and otherwise one
\* filter of the policy over exactly the keys added, with no offset table
\* and no shift byte.
C12_WholeTableWriter ==
    /\ phase = "tbuilding" =>
          /\ tw.count = tw.adds
          /\ tw.writer.keys = tw.all
          /\ call.op = "finishBlock" => ~call.err
    /\ phase \in {"tnil", "tdone"} =>
          /\ ~call.err
          /\ phase = "tnil" <=> tw.adds = 0
    /\ phase = "tnil" => blob = NoBytes
    /\ phase = "tdone" =>
          /\ Len(blob.filters) = 1
          /\ blob.filters[1].keys = tw.all
          /\ blob.filters[1].fk = "TableFilter"
          /\ blob.raw = <<>>

\* C12 witness: a filter over both keys, returned after finishBlock calls at
\* a later block offset
C12_Witness ==
    /\ phase = "tdone" /\ tw.all = Keys
    /\ call.prev > 0 /\ call.n - 1 > tw.adds

(***************************************************************************)
(* One table build end to end: two keys, finishBlock(0), a third key,      *)
(* finishBlock(2048), finish, then the reader on the blob.  The keys are   *)
(* any of ScenarioKeys and the policy writes filters of any of its         *)
(* lengths.                                                                *)
(***************************************************************************)
ScenarioKeys == {"a", "b", "c"}

InitScenario ==
    /\ policy \in [junk : BOOLEAN, lens : {FilterLens}]
    /\ f = newBlockFilterWriter
    /\ phase = "building"
    /\ call = NoCall
    /\ blob = NoBytes
    /\ r = NilReader
    /\ query = NoQuery
    /\ cur = {}
    /\ added = {}
    /\ prev = -1
    /\ mono = TRUE
    /\ tw = newTableFilterWriter
    /\ loop = NoLoop
    /\ qs = NoQueries

NextScenario ==
    \/ \E key \in ScenarioKeys : call.n \in {0, 1, 3} /\ AddKey(key)
    \/ \E n \in policy.lens : call.n = 2 /\ FinishBlock(0, n)
    \/ \E n \in policy.lens : call.n = 4 /\ FinishBlock(2048, n)
    \/ \E n \in policy.lens : call.n = 5 /\ Finish(n)
    \/ Open
    \/ \E blockOffset \in {0, 2048} : \E key \in ScenarioKeys :
          MayContain(blockOffset, key)

SpecScenario == InitScenario /\ [][NextScenario]_vars

\* C13: after addKey, addKey, finishBlock(0), addKey, finishBlock(2048),
\* finish, the finish fails only on more than 2^32-1 bytes of segment data;
\* a reader is built from the blob it returns, and mayContain answers true
\* at offset 0 for the first two keys and at offset 2048 for the third.
C13_EndToEndTrace ==
    /\ (call.op = "finish" /\ call.err) => WLt(MaxUint32, SegLen(f.data))
    /\ phase = "open" =>
          /\ ~r.nil
          /\ \A x \in added : mayContain(r, blob, x[3], x[1]) = "true"
          /\ (\E x \in added : x[1] = query.key /\ x[3] = query.blockOffset)
                => query.result \in {"none", "true"}

\* C13 witness: the keys a and b before finishBlock(0), c before
\* finishBlock(2048), and the reader asked about c at 2048
C13_Witness ==
    /\ Opened
    /\ {x[1] : x \in {y \in added : y[3] = 0}} = {"a", "b"}
    /\ {x[1] : x \in {y \in added : y[3] = 2048}} = {"c"}
    /\ query = [blockOffset |-> 2048, key |-> "c", result |-> "true"]

(***************************************************************************)
(* Concurrent queries.  Several callers run mayContain on one reader and   *)
(* one blob at the same time; a call of blockFilterReader.mayContain is a  *)
(* step for each read of the reader or the blob, with the values read held *)
(* in the caller's locals.                                                 *)
(***************************************************************************)
\* the blobs of one filter, one raw segment byte or one byte of padding,
\* three words and a final byte that newBlockFilterReader accepts
ConcBlobs ==
    {b \in Blobs :
        /\ Len(b.filters) = 1
        /\ Len(b.raw) = 14
        /\ ~newBlockFilterReader(b, [junk |-> FALSE, lens |-> {}]).nil}

\* the filters a tableFilterWriter returns
TableBlobs ==
    {[filters |-> <<FilterRun("TableFilter", ks, W(1))>>, raw |-> <<>>] :
        ks \in SUBSET Keys}

\* the reader after a step of mayContain writing the offset it parsed back
\* to the receiver
receiverAfterMayContain_storesOffset(rd) == [rd EXCEPT !.lastOffset = W(0)]

\* the reader after a step of mayContain: the method assigns no field of its
\* receiver
receiverAfterMayContain(rd) == rd

InitConc ==
    /\ policy \in [junk : BOOLEAN, lens : {{W(1)}}]
    /\ f = newBlockFilterWriter
    /\ \/ phase = "conc" /\ blob \in ConcBlobs /\ r = newBlockFilterReader(blob, policy)
       \/ phase = "tconc" /\ blob \in TableBlobs /\ r = NilReader
    /\ call = NoCall
    /\ query = NoQuery
    /\ cur = {}
    /\ added = {}
    /\ prev = -1
    /\ mono = TRUE
    /\ tw = newTableFilterWriter
    /\ loop = NoLoop
    /\ qs = NoQueries

ConcFrame ==
    UNCHANGED <<policy, f, phase, call, blob, query, cur, added, prev, mono,
                tw, loop>>

\* a caller enters blockFilterReader.mayContain(data, blockOffset, key)
ConcCall(c, blockOffset, key) ==
    /\ phase = "conc"
    /\ qs[c].pc \in {"idle", "done"}
    /\ qs' = [qs EXCEPT ![c] = [pc |-> "slice", blockOffset |-> blockOffset,
                                key |-> key, lastOffset |-> W(0), index |-> 0,
                                result |-> "none"]]
    /\ r' = r
    /\ ConcFrame

\* data, offsets := data[:f.lastOffset], data[f.lastOffset:len(data)-1]
ConcSlice(c) ==
    /\ qs[c].pc = "slice"
    /\ qs' = [qs EXCEPT ![c] =
                IF WLt(BLen(blob), W(1)) \/ WLt(WSub(BLen(blob), W(1)), r.lastOffset)
                THEN [@ EXCEPT !.pc = "done", !.result = "panic"]
                ELSE [@ EXCEPT !.pc = "index", !.lastOffset = r.lastOffset]]
    /\ r' = receiverAfterMayContain(r)
    /\ ConcFrame

\* index := blockOffset >> f.shift, compared with len(offsets)/4-1
ConcIndex(c) ==
    /\ qs[c].pc = "index"
    /\ LET cnt == WDiv4(WSub(WSub(BLen(blob), W(1)), qs[c].lastOffset))
           index == Shr(qs[c].blockOffset, r.shift) IN
       qs' = [qs EXCEPT ![c] =
                IF cnt # W(0) /\ WLe(WSub(cnt, W(1)), W(index))
                THEN [@ EXCEPT !.pc = "done", !.result = "true"]
                ELSE [@ EXCEPT !.pc = "bounds", !.index = index]]
    /\ r' = receiverAfterMayContain(r)
    /\ ConcFrame

\* i and j are read from the offset table, checked, and the policy is asked
ConcBounds(c) ==
    /\ qs[c].pc = "bounds"
    /\ LET lo == qs[c].lastOffset
           offsetsLen == WSub(WSub(BLen(blob), W(1)), lo)
           i == Uint32At(blob, WAdd(lo, W(4 * qs[c].index)))
           j == Uint32At(blob, WAdd(lo, W(4 * qs[c].index + 4))) IN
       qs' = [qs EXCEPT ![c] =
                [@ EXCEPT !.pc = "done",
                          !.result =
                              IF WLt(offsetsLen, W(4 * qs[c].index + 8)) THEN "panic"
                              ELSE IF WLe(j, i) \/ WLt(lo, j) THEN "true"
                              ELSE IF PolicyMayContain(r.policy, "BlockFilter",
                                                       blob, i, j, qs[c].key)
                                   THEN "true" ELSE "false"]]
    /\ r' = receiverAfterMayContain(r)
    /\ ConcFrame

\* tableFilterReader.mayContain(data, key): one call of the policy
ConcTable(c, key) ==
    /\ phase = "tconc"
    /\ qs' = [qs EXCEPT ![c] = [pc |-> "done", blockOffset |-> 0, key |-> key,
                                lastOffset |-> W(0), index |-> 0,
                                result |-> tableMayContain(policy, blob, key)]]
    /\ r' = r
    /\ ConcFrame

NextConc ==
    \/ \E c \in Callers : \E blockOffset \in QueryOffsets : \E key \in Keys :
          ConcCall(c, blockOffset, key)
    \/ \E c \in Callers : ConcSlice(c)
    \/ \E c \in Callers : ConcIndex(c)
    \/ \E c \in Callers : ConcBounds(c)
    \/ \E c \in Callers : \E key \in Keys : ConcTable(c, key)

SpecConc == InitConc /\ [][NextConc]_vars

\* what the query of a caller returns when it runs alone on the reader and
\* the blob
Alone(rd, data, p, ph, q) ==
    IF ph = "conc" THEN mayContain(rd, data, q.blockOffset, q.key)
    ELSE tableMayContain(p, data, q.key)

\* C14: no step of a mayContain call, of the per-block or the whole-table
\* reader, changes the reader (policy, lastOffset, shift) or the blob; and
\* however the steps of concurrent calls interleave, each call returns what
\* it returns when run alone.
C14_ReaderImmutable ==
    [][ /\ r' = r
        /\ blob' = blob
        /\ policy' = policy
        /\ \A c \in Callers :
              qs'[c].pc = "done" =>
                  qs'[c].result = Alone(r, blob, policy, phase, qs'[c])
      ]_vars

\* C14 witness: a call returned false while the call of another caller,
\* about the other key, was between two of its reads
C14_Witness ==
    /\ phase = "conc"
    /\ qs[1].pc = "done" /\ qs[1].result = "false"
    /\ qs[2].pc = "bounds" /\ qs[2].key # qs[1].key

\* history: every key passed to addKey, with the number of segments emitted
\* when it was passed
AllAdded == {<<x[1], x[2]>> : x \in added} \cup {<<c[1], c[2]>> : c \in cur}

\* the filters of the blob that fill segment s (from 0) of its offset table
SegFilters(s) ==
    {k \in 1..Len(blob.filters) :
        /\ LenUpTo(blob.filters, k - 1) = TableEntry(s)
        /\ LenUpTo(blob.filters, k) = TableEntry(s + 1)}

\* the keys held by segment s of the blob
SegKeys(s) == UNION {blob.filters[k].keys : k \in SegFilters(s)}

\* C15: in the blob of a finish that succeeds, the keys of segment s are
\* exactly the keys passed to addKey while s segments were emitted: every
\* key is in the segment numbered by the segments emitted when it was added
\* and in no other, and every filter of the blob is one segment.
C15_KeyPlacement ==
    Finished =>
        /\ \A y \in AllAdded : y[2] < f.emits
        /\ \A s \in 0..(f.emits - 1) :
              SegKeys(s) = {y[1] : y \in {z \in AllAdded : z[2] = s}}
        /\ \A k \in 1..Len(blob.filters) :
              \E s \in 0..(f.emits - 1) : SegFilters(s) = {k}

\* C15 witness: keys in segments 0 and 2 with an empty segment between, the
\* last one flushed by finish
C15_Witness ==
    /\ Finished /\ f.emits = 3 /\ cur # {}
    /\ SegKeys(0) # {} /\ SegKeys(1) = {} /\ SegKeys(2) # {}
    /\ SegKeys(0) # SegKeys(2)

\* history: every key passed to addKey, with the offset of the finishBlock
\* call before it, 0 when there was none: the block whose keys follow the
\* call that names it
KeysAfterOffset == {<<x[1], x[4]>> : x \in added} \cup {<<c[1], c[3]>> : c \in cur}

\* C16: with non-decreasing block offsets, where finishBlock(B) is called
\* before the keys of the block at B are added (the first block, at 0,
\* needing no call), the reader of the finished blob answers true at B for
\* every key added between finishBlock(B) and the next finishBlock or finish.
C16_NoFalseNegativesOffsetFirst ==
    (Opened /\ mono) =>
        /\ \A y \in KeysAfterOffset : mayContain(r, blob, y[2], y[1]) = "true"
        /\ <<query.key, query.blockOffset>> \in KeysAfterOffset
              => query.result \in {"none", "true"}

\* C16 witness: the policy was asked about the segment of a block past the
\* first window for a key added after the finishBlock of that block, and a
\* key of an earlier block sits in another segment
C16_Witness ==
    /\ Opened /\ mono /\ query.result = "true"
    /\ query.blockOffset > 0
    /\ <<query.key, query.blockOffset>> \in KeysAfterOffset
    /\ WindowOf(query.blockOffset) < f.emits
    /\ query.key \in SegKeys(WindowOf(query.blockOffset))
    /\ \E y \in KeysAfterOffset : y[2] < query.blockOffset

\* C17: from the blob of a finish that succeeds newBlockFilterReader builds
\* a reader, not nil, with shift 11 and lastOffset the length of the
\* writer's segment data; the reader counts as many real segments as the
\* writer emitted, and reads for each the bounds the writer recorded.
C17_WriterReaderRoundTrip ==
    Finished =>
        /\ phase = "done" => ~newBlockFilterReader(blob, policy).nil
        /\ phase = "open" =>
              /\ ~r.nil
              /\ r.shift = filterBaseLog
              /\ r.lastOffset = SegLen(blob)
              /\ r.lastOffset = f.lens[Len(f.lens)]
              /\ RdSegments = f.emits
              /\ \A s \in 0..(f.emits - 1) :
                    /\ RdLow(s) = f.lens[s + 1]
                    /\ RdHigh(s) = f.lens[s + 2]

\* C17 witness: a reader on a blob of three segments, one of them empty and
\* one ending at 2^32-1
C17_Witness ==
    /\ Finished /\ Opened /\ RdSegments = 3
    /\ \E s \in 0..2 : RdLow(s) = RdHigh(s)
    /\ \E s \in 0..2 : RdLow(s) # RdHigh(s) /\ RdHigh(s) = MaxUint32

(***************************************************************************)
(* finishBlock one loop iteration at a time: the test of the for loop and  *)
(* the call of emit in its body are steps, so that the number of           *)
(* iterations of a call is a quantity of the model.                        *)
(***************************************************************************)
InitLoop ==
    /\ policy \in Policies
    /\ f = newBlockFilterWriter
    /\ phase = "building"
    /\ call = NoCall
    /\ blob = NoBytes
    /\ r = NilReader
    /\ query = NoQuery
    /\ cur = {}
    /\ added = {}
    /\ prev = -1
    /\ mono = TRUE
    /\ tw = newTableFilterWriter
    /\ loop = NoLoop
    /\ qs = NoQueries

\* finishBlock(blockOffset) is entered; n0 segments are emitted on entry
LoopEnter(blockOffset) ==
    /\ phase = "building"
    /\ loop.pc # "loop"
    /\ loop' = [pc |-> "loop", blockOffset |-> blockOffset,
                n0 |-> Len(f.offsets), iters |-> 0, err |-> FALSE]
    /\ call' = Called("finishBlock", blockOffset, FALSE)
    /\ added' = added \cup {<<c[1], c[2], blockOffset, c[3]>> : c \in cur}
    /\ cur' = {}
    /\ prev' = blockOffset
    /\ mono' = (mono /\ prev <= blockOffset)
    /\ UNCHANGED <<policy, f, phase, blob, r, query, tw, qs>>

\* the loop test holds: one call of emit, returning its error if it has one.
\* A call makes no more iterations than there are block offsets.
LoopIter(n) ==
    /\ loop.pc = "loop"
    /\ loop.iters <= MaxBlock + 1
    /\ Shr(loop.blockOffset, filterBaseLog) > Len(f.offsets)
    /\ LET e == emit(f, n) IN
        /\ f' = e.f
        /\ loop' = [loop EXCEPT !.iters = @ + 1,
                                !.err = e.err,
                                !.pc = IF e.err THEN "returned" ELSE "loop"]
        /\ call' = [call EXCEPT !.err = e.err]
    /\ UNCHANGED <<policy, phase, blob, r, query, cur, added, prev, mono, tw, qs>>

\* the loop test fails: finishBlock returns nil
LoopExit ==
    /\ loop.pc = "loop"
    /\ ~(Shr(loop.blockOffset, filterBaseLog) > Len(f.offsets))
    /\ loop' = [loop EXCEPT !.pc = "returned"]
    /\ UNCHANGED <<policy, f, phase, call, blob, r, query, cur, added, prev,
                   mono, tw, qs>>

LoopStep == (\E n \in policy.lens : LoopIter(n)) \/ LoopExit

NextLoop ==
    \/ \E key \in Keys : call.n < MaxCalls /\ loop.pc # "loop" /\ AddKey(key)
    \/ \E blockOffset \in BlockOffsets : call.n < MaxCalls /\ LoopEnter(blockOffset)
    \/ \E n \in policy.lens : LoopIter(n)
    \/ LoopExit

\* a call that was entered keeps running: the writer is used by one goroutine
SpecLoop == InitLoop /\ [][NextLoop]_vars /\ WF_vars(LoopStep)

\* the bound on the iterations of the finishBlock call in progress
LoopBound == Max(0, WindowOf(loop.blockOffset) - loop.n0)

\* C18: a finishBlock(blockOffset) entered with n segments emitted returns,
\* after at most max(0, (blockOffset >> 11) - n) iterations of its loop;
\* every iteration either recorded one more offset or returned the error.
C18_FinishBlockTerminates ==
    /\ [](loop.pc # "idle" =>
            /\ loop.iters <= LoopBound
            /\ loop.iters = (Len(f.offsets) - loop.n0) + (IF loop.err THEN 1 ELSE 0)
            /\ loop.err => loop.pc = "returned"
            /\ (loop.pc = "returned" /\ ~loop.err) =>
                  Len(f.offsets) = Max(loop.n0, WindowOf(loop.blockOffset)))
    /\ (loop.pc = "loop") ~> (loop.pc = "returned")

\* C18 witness: a call returned after every iteration its bound allows, more
\* than one
C18_Witness ==
    /\ loop.pc = "returned" /\ ~loop.err
    /\ loop.iters = LoopBound /\ loop.iters >= 2

\* a is a prefix of b
IsPrefix(a, b) == Len(a) <= Len(b) /\ \A i \in 1..Len(a) : a[i] = b[i]

\* C19: no addKey, finishBlock or finish step changes an offset already
\* recorded or a byte of segment data already written: offsets and data only
\* grow at their ends; and an emit that fails in appendOffset leaves the
\* writer, its offsets, data and count of pending keys, as it was.
C19_AppendOnly ==
    [][ phase = "building" =>
          /\ IsPrefix(f.offsets, f'.offsets)
          /\ IsPrefix(f.lens, f'.lens)
          /\ IsPrefix(f.data.filters, f'.data.filters)
          /\ IsPrefix(f.data.raw, f'.data.raw)
          /\ f.data.raw # <<>> => f'.data = f.data
          /\ \A n \in policy.lens :
                LET e == emit(f, n) IN
                e.err => /\ e.f.offsets = f.offsets
                         /\ e.f.data = f.data
                         /\ e.f.count = f.count
          /\ (call'.op = "finishBlock" /\ call'.err
                  /\ Len(f'.offsets) = Len(f.offsets))
                => f' = f
      ]_vars /\ [][phase # "building" => f' = f]_vars

\* C19 witness: a finishBlock whose first emit failed with a key pending,
\* after an offset was recorded and a filter written
C19_Witness ==
    /\ call.op = "finishBlock" /\ call.err
    /\ Len(f.offsets) = call.emitted /\ call.emitted >= 1
    /\ f.count > 0 /\ f.count = call.pending
    /\ Len(f.data.filters) >= 1

(***************************************************************************)
(* A table built with either filter: the per-block writer and reader, or   *)
(* the whole-table writer and reader.                                      *)
(***************************************************************************)
InitKinds == Init \/ InitTable

NextKinds == Next \/ NextTable

SpecKinds == InitKinds /\ [][NextKinds]_vars

\* C20: the per-block writer asks the policy for a writer of kind
\* BlockFilter, so every filter it writes is of that kind, and the per-block
\* reader queries the policy with that kind: asked about a segment it
\* answers for the filter the writer wrote.  The whole-table writer and reader do
\* the same with the kind TableFilter.
C20_KindConsistency ==
    /\ f.writer.kind = "BlockFilter"
    /\ \A k \in 1..Len(f.data.filters) : f.data.filters[k].fk = "BlockFilter"
    /\ (Opened /\ query.result # "none"
            /\ WindowOf(query.blockOffset) < f.emits
            /\ SegFilters(WindowOf(query.blockOffset)) # {}) =>
          query.result = (IF query.key \in SegKeys(WindowOf(query.blockOffset))
                          THEN "true" ELSE "false")
    /\ tw.writer.kind = "TableFilter"
    /\ phase = "tdone" =>
          /\ \A k \in 1..Len(blob.filters) : blob.filters[k].fk = "TableFilter"
          /\ query.result # "none" =>
                query.result = (IF query.key \in tw.all THEN "true" ELSE "false")

\* C20 witness: the per-block reader asked the policy about a filter the
\* per-block writer wrote, for the one key that is not in it
C20_Witness ==
    /\ Opened /\ query.result = "false"
    /\ WindowOf(query.blockOffset) < f.emits
    /\ SegKeys(WindowOf(query.blockOffset)) = Keys \ {query.key}

====
